---- MODULE Spec2Model ----
(***************************************************************************)
(* PR Line Counter: the webhook handler of src/index.js and the pipeline   *)
(* it runs (signature check, event filter, installation token, changed     *)
(* files, per-file review with inline comments, summary comment).          *)
(*                                                                         *)
(* One action per stretch of handler code between two awaits: an action    *)
(* consumes the outcome of the external call the run is waiting for and    *)
(* runs the code up to the next external call or to the response.          *)
(***************************************************************************)
EXTENDS Integers, Sequences, FiniteSets, TLC

\* ------------------------------------------------------------------ bounds
\* Longest changed-file list the diff service returns.
MaxFiles == 2
\* Longest comments array the review service returns for one file.
MaxFindings == 2
\* Number of head commits the pull request can go through during a run.
MaxHead == 2
\* Longest changed-file list given to a direct call of countLines.
MaxStatFiles == 2
\* Longest changed-file list and longest findings list when two events are
\* served concurrently.
ConcFiles == 1
ConcFindings == 1

\* --------------------------------------------------------------- constants
\* Hex digits of an HMAC-SHA256 digest (32 bytes).
DigestHexLen == 64
\* formatComment's marker threshold and warning threshold.
LargeThreshold == 100
HugeThreshold == 200

\* ------------------------------------------------------------------ strings
\* A string is a sequence of code points; a header value holds latin-1 code
\* points (0..255), which is what node gives for a request header.
Prefix == <<115, 104, 97, 50, 53, 54, 61>>          \* "sha256="
HexDigit(n) == IF n < 10 THEN 48 + n ELSE 87 + n     \* '0'..'9', 'a'..'f'

RECURSIVE Utf8(_)
\* Buffer.from(str): the UTF-8 bytes of the string.
Utf8(str) ==
    IF str = <<>> THEN <<>>
    ELSE LET c == Head(str)
         IN  (IF c < 128 THEN <<c>> ELSE <<192 + (c \div 64), 128 + (c % 64)>>)
             \o Utf8(Tail(str))

\* ------------------------------------------------------------------- inputs
Secrets == {1, 2}
Actions == {"opened", "synchronize", "closed", "reopened", "labeled"}
PRs     == {42}
\* The pull requests of the repository: PRs, and one more for a second event.
AllPRs  == {42, 43}

\* A request body. ctype "form" is a body express.raw() leaves unparsed, so
\* req.body is no Buffer. json: "object" parses to `payload`, "null" parses to
\* null, "invalid" does not parse.
Payloads == [action : Actions, hasPR : BOOLEAN, hasInst : BOOLEAN, pr : PRs]
NoPayload == [action |-> "labeled", hasPR |-> FALSE, hasInst |-> FALSE, pr |-> 42]
Bodies ==
    [ctype : {"json"}, json : {"object"}, payload : Payloads]
    \cup [ctype : {"json"}, json : {"null", "invalid"}, payload : {NoPayload}]
    \cup [ctype : {"form"}, json : {"invalid"}, payload : {NoPayload}]

ActionNo(a) ==
    CASE a = "opened" -> 0 [] a = "synchronize" -> 1 [] a = "closed" -> 2
      [] a = "reopened" -> 3 [] a = "labeled" -> 4
\* The raw bytes of a body, as a number: distinct bodies, distinct numbers.
BodyBytes(b) ==
    LET j == CASE b.json = "object" -> 0 [] b.json = "null" -> 1 [] b.json = "invalid" -> 2
        p == b.payload
    IN  (((ActionNo(p.action) * 2 + (IF p.hasPR THEN 1 ELSE 0)) * 2
            + (IF p.hasInst THEN 1 ELSE 0)) * 3 + j) * 2
        + (IF b.ctype = "json" THEN 0 ELSE 1)
        + 120 * (p.pr % 2)

\* crypto.createHmac('sha256', secret).update(payload).digest('hex'): a keyed
\* digest of DigestHexLen hex digits. SHA-256 itself is not computed; the
\* digest here is collision-free on the modelled inputs, as HMAC is taken to be.
HmacHex(secret, bytes) ==
    LET n == bytes * 4 + secret
        shift(i) == CASE i % 3 = 1 -> 1 [] i % 3 = 2 -> 16 [] OTHER -> 256
    IN  [i \in 1..DigestHexLen |-> HexDigit(((n \div shift(i)) + 7 * i) % 16)]

\* crypto.timingSafeEqual(a, b): throws a RangeError when the byte lengths
\* differ, otherwise compares the bytes.
TimingSafeEqual(a, b) ==
    IF Len(a) # Len(b) THEN "throw" ELSE IF a = b THEN "true" ELSE "false"

\* verifySignature(payload, signature). A header is [present, val]; an absent
\* header is undefined and `signature || ''` makes it (and '') the empty string.
\* .update(payload) throws a TypeError when payload is no Buffer.
verifySignature(secret, body, header) ==
    IF body.ctype # "json" THEN "throw"
    ELSE LET expectedSignature == HmacHex(secret, BodyBytes(body))
             signature == IF header.present THEN header.val ELSE <<>>
         IN  TimingSafeEqual(Utf8(Prefix \o expectedSignature), Utf8(signature))

\* The header GitHub computes for a body under a secret.
Sign(secret, body) == Prefix \o HmacHex(secret, BodyBytes(body))

\* Replace the code point at position i.
Poke(str, i, c) == [str EXCEPT ![i] = c]
\* Flip the lowest bit / the highest bit of the code point at position i.
FlipLow(str, i)  == Poke(str, i, IF str[i] % 2 = 0 THEN str[i] + 1 ELSE str[i] - 1)
FlipHigh(str, i) == Poke(str, i, IF str[i] < 128 THEN str[i] + 128 ELSE str[i] - 128)

OtherSecret(s) == CHOOSE t \in Secrets : t # s
OtherBody(b) == [b EXCEPT !.payload.action = IF @ = "opened" THEN "closed" ELSE "opened"]

\* Header values a sender can attach to body b when the server's secret is s.
HeaderVals(s, b) ==
    LET good == Sign(s, b)
        n == Len(good)
    IN  { good,                                 \* the genuine signature
          Sign(OtherSecret(s), b),              \* signed with another secret
          Sign(s, OtherBody(b)),                \* the signature of another body
          FlipLow(good, n),                     \* one bit of the last digit flipped
          FlipHigh(good, n),                    \* top bit flipped: a 2-byte character
          SubSeq(FlipHigh(good, n), 2, n),      \* n-1 characters, n bytes, no match
          SubSeq(good, Len(Prefix) + 1, n),     \* the bare digest, no prefix
          SubSeq(good, 1, n - 1),               \* truncated
          good \o <<48>>,                       \* one character too long
          <<>> }                                \* empty header value
Headers(s, b) ==
    {[present |-> FALSE, val |-> <<>>]}
    \cup {[present |-> TRUE, val |-> v] : v \in HeaderVals(s, b)}


\* -------------------------------------------------------------- changed files
\* A file name is a sequence of one-character strings.
Lower(c) ==
    CASE c = "A" -> "a" [] c = "B" -> "b" [] c = "C" -> "c" [] c = "D" -> "d"
      [] c = "E" -> "e" [] c = "F" -> "f" [] c = "G" -> "g" [] c = "H" -> "h"
      [] c = "I" -> "i" [] c = "J" -> "j" [] c = "K" -> "k" [] c = "L" -> "l"
      [] c = "M" -> "m" [] c = "N" -> "n" [] c = "O" -> "o" [] c = "P" -> "p"
      [] c = "Q" -> "q" [] c = "R" -> "r" [] c = "S" -> "s" [] c = "T" -> "t"
      [] c = "U" -> "u" [] c = "V" -> "v" [] c = "W" -> "w" [] c = "X" -> "x"
      [] c = "Y" -> "y" [] c = "Z" -> "z" [] OTHER -> c
toLowerCase(name) == [i \in 1..Len(name) |-> Lower(name[i])]
endsWith(name, ext) ==
    /\ Len(ext) <= Len(name)
    /\ SubSeq(name, Len(name) - Len(ext) + 1, Len(name)) = ext

imageExtensions ==
    { <<".", "p", "n", "g">>, <<".", "j", "p", "g">>, <<".", "j", "p", "e", "g">>,
      <<".", "g", "i", "f">>, <<".", "s", "v", "g">>, <<".", "i", "c", "o">>,
      <<".", "b", "m", "p">>, <<".", "w", "e", "b", "p">> }
\* Mutant of isCodeFile: the name is compared as it is written.
isCodeFileMut(filename) ==
    ~ \E ext \in imageExtensions : endsWith(filename, ext)
isCodeFile(filename) ==
    ~ \E ext \in imageExtensions : endsWith(toLowerCase(filename), ext)

\* A count or a patch the diff service may leave out is <<>> when missing and
\* <<value>> when present; patch values are "" and "diff".
Missing == <<>>
A_JS     == [filename |-> <<"a", ".", "j", "s">>, status |-> "modified",
             additions |-> <<10>>, deletions |-> <<2>>, patch |-> <<"diff">>]
APP_PY   == [filename |-> <<"a", "p", "p", ".", "p", "y">>, status |-> "added",
             additions |-> <<250>>, deletions |-> <<0>>, patch |-> <<"diff">>]
IMG_PNG  == [filename |-> <<"i", "m", "g", ".", "p", "n", "g">>, status |-> "modified",
             additions |-> <<0>>, deletions |-> <<0>>, patch |-> Missing]
LOGO_PNG == [filename |-> <<"L", "O", "G", "O", ".", "P", "N", "G">>, status |-> "modified",
             additions |-> <<1>>, deletions |-> <<1>>, patch |-> <<"diff">>]
OLD_C    == [filename |-> <<"o", "l", "d", ".", "c">>, status |-> "removed",
             additions |-> <<0>>, deletions |-> <<130>>, patch |-> <<"diff">>]
BIG_BIN  == [filename |-> <<"b", ".", "b", "i", "n">>, status |-> "renamed",
             additions |-> Missing, deletions |-> Missing, patch |-> <<"">>]
FileUniverse == {A_JS, APP_PY, IMG_PNG, LOGO_PNG, OLD_C, BIG_BIN}

\* Changed files for direct calls of countLines: each status, with counts that
\* are missing, zero or next to the thresholds of formatComment.
StatFiles ==
    [filename : {<<"f">>}, status : {"modified", "removed"},
     additions : {Missing, <<0>>, <<100>>, <<101>>, <<200>>, <<201>>},
     deletions : {Missing, <<0>>, <<1>>}, patch : {<<"diff">>}]

RECURSIVE SeqsUpTo(_, _)
\* The sequences over S of length at most n.
SeqsUpTo(S, n) ==
    IF n = 0 THEN {<<>>}
    ELSE LET shorter == SeqsUpTo(S, n - 1)
         IN  shorter \cup {Append(q, x) : q \in {p \in shorter : Len(p) = n - 1}, x \in S}

\* The changed-file lists of at most n files: a diff names each file once.
FileLists(n) ==
    {fl \in SeqsUpTo(FileUniverse, n) :
        \A i, j \in 1..Len(fl) : fl[i].filename = fl[j].filename => i = j}

\* `x || 0` of a count; `!file.patch` is true of a missing and of an empty patch.
OrZero(x) == IF x = Missing THEN 0 ELSE x[1]
Falsy(patch) == patch = Missing \/ patch = <<"">>

RECURSIVE countFrom(_, _, _)
\* The forEach of countLines over files[i..], from the running totals acc.
countFrom(files, i, acc) ==
    IF i > Len(files) THEN acc
    ELSE LET file == files[i]
         IN  countFrom(files, i + 1,
                 IF file.status # "removed"
                 THEN [additions |-> acc.additions + OrZero(file.additions),
                       deletions |-> acc.deletions + OrZero(file.deletions),
                       filesChanged |-> acc.filesChanged + 1]
                 ELSE acc)
\* Mutant of countLines: removed files are counted like the others.
countLinesMut(files) ==
    LET all == [i \in 1..Len(files) |-> [files[i] EXCEPT !.status = "modified"]]
        t == countFrom(all, 1, [additions |-> 0, deletions |-> 0, filesChanged |-> 0])
    IN  [additions |-> t.additions, deletions |-> t.deletions,
         filesChanged |-> t.filesChanged, netChange |-> t.additions - t.deletions]
countLines(files) ==
    LET t == countFrom(files, 1, [additions |-> 0, deletions |-> 0, filesChanged |-> 0])
    IN  [additions |-> t.additions, deletions |-> t.deletions,
         filesChanged |-> t.filesChanged, netChange |-> t.additions - t.deletions]

\* formatComment(stats): the template's variable parts. emoji is "chart",
\* "rocket" or "fire"; sign is the '+' put before a positive net change;
\* advice is "large" (the warning line) or "good" (the good-size line).
\* Mutant of formatComment: both thresholds are compared with >=.
formatCommentMut(stats) ==
    [emoji |-> IF stats.netChange >= LargeThreshold THEN "rocket"
               ELSE IF stats.netChange < 0 THEN "fire" ELSE "chart",
     additions |-> stats.additions, deletions |-> stats.deletions,
     filesChanged |-> stats.filesChanged,
     sign |-> IF stats.netChange > 0 THEN "+" ELSE "",
     netChange |-> stats.netChange,
     advice |-> IF stats.netChange >= HugeThreshold THEN "large" ELSE "good"]
formatComment(stats) ==
    [emoji |-> IF stats.netChange > LargeThreshold THEN "rocket"
               ELSE IF stats.netChange < 0 THEN "fire" ELSE "chart",
     additions |-> stats.additions, deletions |-> stats.deletions,
     filesChanged |-> stats.filesChanged,
     sign |-> IF stats.netChange > 0 THEN "+" ELSE "",
     netChange |-> stats.netChange,
     advice |-> IF stats.netChange > HugeThreshold THEN "large" ELSE "good"]

\* ------------------------------------------------------------- review service
Undefined == "<undefined>"
\* Findings the review service returns; the last one lacks its severity.
Findings ==
    { [line |-> 3, message |-> "m1", severity |-> "warning"],
      [line |-> 7, message |-> "m2", severity |-> Undefined] }
\* What the completion call produces: it rejects ("apiError"), or its content
\* is not JSON ("unparsable"), or is the JSON null ("null"), or is an object
\* without a comments key ("bare") or with a comments array ("object").
ReviewResponses(maxFindings) ==
    [kind : {"apiError", "unparsable", "null", "bare"}, comments : {<<>>}]
    \cup [kind : {"object"}, comments : SeqsUpTo(Findings, maxFindings)]

\* getAIReview: what it returns to reviewFileWithAI. Its catch turns a rejected
\* call and unparsable content into {comments: []}; whatever JSON.parse gives is
\* returned as it is (isNull: the value null; hasComments: a comments key).
getAIReview(resp) ==
    CASE resp.kind \in {"apiError", "unparsable"} ->
            [isNull |-> FALSE, hasComments |-> TRUE, comments |-> <<>>]
      [] resp.kind = "null" ->
            [isNull |-> TRUE, hasComments |-> FALSE, comments |-> <<>>]
      [] resp.kind = "bare" ->
            [isNull |-> FALSE, hasComments |-> FALSE, comments |-> <<>>]
      [] OTHER ->
            [isNull |-> FALSE, hasComments |-> TRUE, comments |-> resp.comments]

toUpperCase(sev) ==
    CASE sev = "error" -> "ERROR" [] sev = "warning" -> "WARNING"
      [] sev = "suggestion" -> "SUGGESTION"
\* The body of an inline comment, piece by piece; "throw" when
\* comment.severity is undefined (toUpperCase of undefined is a TypeError).
inlineBody(comment) ==
    IF comment.severity = Undefined THEN <<"throw">>
    ELSE <<"robot **", toUpperCase(comment.severity), "**: ", comment.message>>

\* ----------------------------------------------------------------- the state
Reqs == {1, 2}

VARIABLES
    secret,   \* process.env.WEBHOOK_SECRET
    keyOk,    \* whether process.env.GITHUB_PRIVATE_KEY is a usable RS256 key
    lim,      \* [files, findings, universe]: the longest lists the external
              \* services return, and the files a diff can name
    req,      \* req[r]: the request r as received, [body, header]
    run,      \* run[r]: the handler invocation serving request r
    issued,   \* installation tokens the hosting service has issued so far
    head,     \* head[p]: the head commit of pull request p at the hosting service
    calc      \* a direct call of countLines and formatComment: [pc, files, stats, comment]

config == <<secret, keyOk, lim, req, calc>>
vars == <<secret, keyOk, lim, req, run, issued, head, calc>>

NoAuth == [kind |-> "none", id |-> 0]
Jwt == [kind |-> "jwt", id |-> 0]
ApiKey == [kind |-> "apikey", id |-> 0]
Token(id) == [kind |-> "token", id |-> id]
NoCall == [api |-> "none", auth |-> NoAuth, target |-> 0, arg |-> <<>>]
Call(api, auth, target, arg) == [api |-> api, auth |-> auth, target |-> target, arg |-> arg]

\* The handler invocation before it starts. pc is where it waits; sig is what
\* verifySignature gave; resp the responses sent; unhandled whether the
\* handler's promise was rejected; token, files, fi (index of the file under
\* review), comments, ci (index of the finding being posted) and sha are the
\* handler's locals; call is the external call in flight. The rest records
\* what the run did: n counts the calls issued per operation, summaryOk and
\* mintOk the successful ones; for file i, sent[i] counts its review calls,
\* failed[i] tells that the review service gave no comments array (it threw, or
\* its output was no JSON, null or had no comments), returned[i] counts the
\* findings iterated, tried[i] the postInlineComment calls and
\* posted[i] the review comments created. The locals of a function that has
\* returned (comments, ci, sha) are cleared. last is the commit_id of the
\* latest createReviewComment call issued for the current file, 0 if none.
Idle(pc) ==
    [pc |-> pc, sig |-> "none", resp |-> <<>>, unhandled |-> FALSE,
     token |-> 0, target |-> 0, files |-> <<>>, fetched |-> FALSE,
     fi |-> 0, comments |-> <<>>, ci |-> 0, sha |-> 0, last |-> 0,
     call |-> NoCall,
     n |-> [mint |-> 0, listFiles |-> 0, review |-> 0, pullsGet |-> 0, summary |-> 0],
     mintOk |-> 0, summaryOk |-> 0,
     sent |-> <<>>, failed |-> <<>>, returned |-> <<>>, tried |-> <<>>, posted |-> <<>>]

\* No direct call of countLines is being made.
NoCalc == [pc |-> "none", files |-> <<>>, stats |-> <<>>, comment |-> <<>>]

Requests(s) ==
    UNION {{[body |-> b, header |-> h] : h \in Headers(s, b)} : b \in Bodies}

\* ------------------------------------------------------- the handler's code
\* res.status(code).send(...): the handler is done.
Respond(s, code) ==
    [s EXCEPT !.pc = "done", !.resp = Append(@, code), !.call = NoCall]

\* The status the catch of the webhook handler sends.
CatchStatus == 500
\* The status sent for a request whose signature does not verify.
UnauthorizedStatus == 401
\* The status sent for an ignored event and after handlePullRequest returned.
OkStatus == 200

\* Mutant of Fail: the catch answers as if the run had succeeded.
FailMut(s) == Respond(s, OkStatus)
\* An exception leaves handlePullRequest: the catch of the webhook handler.
Fail(s) == Respond(s, CatchStatus)

\* An exception leaves the handler itself, outside its try: the async
\* handler's promise is rejected. The handler sends nothing; express 4 leaves
\* the request unanswered ("hang"), express 5 passes the rejection to its
\* error handler, which answers 500 ("error500").
UnhandledOutcomes == {"hang", "error500"}
Unhandled(s, outcome) ==
    [s EXCEPT !.pc = "done", !.unhandled = TRUE, !.call = NoCall,
              !.resp = IF outcome = "error500" THEN Append(@, 500) ELSE @]

\* Mutant of Ignored: the two tests joined by && instead of ||.
IgnoredMut(payload) ==
    ~payload.hasPR /\ (payload.action # "opened" /\ payload.action # "synchronize")
\* The event filter: the events the handler answers without handling.
Ignored(payload) ==
    ~payload.hasPR \/ (payload.action # "opened" /\ payload.action # "synchronize")

\* The test that skips a file in the loop of handlePullRequest, and the files
\* the loop hands to reviewFileWithAI.
Skipped(file) == file.status = "removed" \/ Falsy(file.patch)
Reviewed(file) == ~Skipped(file) /\ isCodeFile(file.filename)

\* The first index from i on of a file the loop reviews, 0 when there is none.
NextReviewed(files, i) ==
    LET J == {j \in i..Len(files) : Reviewed(files[j])}
    IN  IF J = {} THEN 0 ELSE CHOOSE j \in J : \A k \in J : j <= k

\* octokit.rest.issues.createComment with formatComment(countLines(files)).
\* Mutant of PostSummary: the statistics are taken over the reviewed files.
PostSummaryMut(s) ==
    [s EXCEPT !.pc = "summary", !.n.summary = @ + 1,
              !.comments = <<>>, !.ci = 0, !.sha = 0, !.last = 0,
              !.call = Call("createComment", Token(s.token), s.target,
                            [body |-> formatComment(countLines(SelectSeq(s.files, Reviewed)))])]
PostSummary(s) ==
    [s EXCEPT !.pc = "summary", !.n.summary = @ + 1,
              !.comments = <<>>, !.ci = 0, !.sha = 0, !.last = 0,
              !.call = Call("createComment", Token(s.token), s.target,
                            [body |-> formatComment(countLines(s.files))])]

\* reviewFileWithAI(files[j]) up to its call of the review service.
IssueReview(s, j) ==
    [s EXCEPT !.pc = "review", !.fi = j, !.comments = <<>>, !.ci = 0, !.sha = 0, !.last = 0,
              !.n.review = @ + 1, !.sent[j] = @ + 1,
              !.call = Call("review", ApiKey, 0,
                            [filename |-> s.files[j].filename, patch |-> s.files[j].patch])]

\* Mutant of ReviewLoop: the loop is left after its first file.
ReviewLoopMut(s, i) ==
    LET j == NextReviewed(s.files, i)
    IN  IF j = 0 \/ i > 1 THEN PostSummary(s) ELSE IssueReview(s, j)
\* The loop of handlePullRequest from file i on, then the summary comment.
ReviewLoop(s, i) ==
    LET j == NextReviewed(s.files, i)
    IN  IF j = 0 THEN PostSummary(s) ELSE IssueReview(s, j)

\* Mutant of ReviewCatch: the file's review is tried a second time.
ReviewCatchRetry(s) ==
    IF s.sent[s.fi] < 2 THEN IssueReview(s, s.fi) ELSE ReviewLoop(s, s.fi + 1)
\* Mutant of ReviewCatch: the error is thrown on to handlePullRequest.
ReviewCatchMut(s) == Fail(s)
\* The catch of reviewFileWithAI: the error is logged and the file is done.
ReviewCatch(s) == ReviewLoop(s, s.fi + 1)

\* postInlineComment(comments[k]) up to its octokit.rest.pulls.get.
IssueHeadFetch(s, k) ==
    [s EXCEPT !.pc = "head", !.ci = k, !.sha = 0, !.n.pullsGet = @ + 1,
              !.last = IF s.pc = "inline" THEN s.sha ELSE @,
              !.tried[s.fi] = @ + 1,
              !.call = Call("pulls.get", Token(s.token), s.target, <<>>)]

\* The loop of reviewFileWithAI from comment k on, then the next file.
CommentLoop(s, k) ==
    IF k <= Len(s.comments) THEN IssueHeadFetch(s, k) ELSE ReviewLoop(s, s.fi + 1)

\* Mutant of InlineCatch: the error is thrown on to reviewFileWithAI.
InlineCatchMut(s) == ReviewCatch(s)
\* The catch of postInlineComment: the error is logged and the comment is done.
InlineCatch(s) == CommentLoop(s, s.ci + 1)

\* Mutant of IssueReviewComment: the findings are taken from the last to the first.
IssueReviewCommentReversed(s, sha) ==
    LET comment == s.comments[Len(s.comments) - s.ci + 1]
        body == inlineBody(comment)
    IN  IF body = <<"throw">> THEN InlineCatch([s EXCEPT !.sha = sha])
        ELSE [s EXCEPT !.pc = "inline", !.sha = sha,
                       !.call = Call("createReviewComment", Token(s.token), s.target,
                                     [body |-> body, commit_id |-> sha,
                                      path |-> s.files[s.fi].filename,
                                      position |-> comment.line])]
\* Mutant of IssueReviewComment: the commit id of the file's first comment is
\* kept for its later ones.
IssueReviewCommentCached(s, sha) ==
    LET comment == s.comments[s.ci]
        body == inlineBody(comment)
        kept == IF s.last # 0 THEN s.last ELSE sha
    IN  IF body = <<"throw">> THEN InlineCatch([s EXCEPT !.sha = sha])
        ELSE [s EXCEPT !.pc = "inline", !.sha = kept,
                       !.call = Call("createReviewComment", Token(s.token), s.target,
                                     [body |-> body, commit_id |-> kept,
                                      path |-> s.files[s.fi].filename,
                                      position |-> comment.line])]
\* Mutant of IssueReviewComment: the position is the finding's index.
IssueReviewCommentMut(s, sha) ==
    LET comment == s.comments[s.ci]
        body == inlineBody(comment)
    IN  IF body = <<"throw">> THEN InlineCatch([s EXCEPT !.sha = sha])
        ELSE [s EXCEPT !.pc = "inline", !.sha = sha,
                       !.call = Call("createReviewComment", Token(s.token), s.target,
                                     [body |-> body, commit_id |-> sha,
                                      path |-> s.files[s.fi].filename,
                                      position |-> s.ci])]
\* postInlineComment after pulls.get returned prData with head.sha = sha.
IssueReviewComment(s, sha) ==
    LET comment == s.comments[s.ci]
        body == inlineBody(comment)
    IN  IF body = <<"throw">> THEN InlineCatch([s EXCEPT !.sha = sha])
        ELSE [s EXCEPT !.pc = "inline", !.sha = sha,
                       !.call = Call("createReviewComment", Token(s.token), s.target,
                                     [body |-> body, commit_id |-> sha,
                                      path |-> s.files[s.fi].filename,
                                      position |-> comment.line])]

\* reviewFileWithAI after getAIReview returned aiReview.
AfterReview(s, aiReview) ==
    IF aiReview.isNull THEN ReviewCatch(s)
    ELSE IF aiReview.hasComments /\ Len(aiReview.comments) > 0
         THEN CommentLoop([s EXCEPT !.comments = aiReview.comments,
                                    !.returned[s.fi] = Len(aiReview.comments)], 1)
         ELSE ReviewLoop(s, s.fi + 1)

\* handlePullRequest(payload) up to its first await: installation.id,
\* createJWT() and the token exchange.
StartPipeline(s, payload) ==
    IF ~payload.hasInst \/ ~keyOk THEN Fail(s)
    ELSE [s EXCEPT !.pc = "mint", !.target = payload.pr, !.n.mint = @ + 1,
                   !.call = Call("createInstallationAccessToken", Jwt, payload.pr, <<>>)]

\* Mutant of AfterMint: a module-level cache keeps the first token ever issued
\* and every run builds its client from the cache.
AfterMintCached(s, token) ==
    [s EXCEPT !.pc = "fetch", !.token = 1, !.mintOk = @ + 1,
              !.n.listFiles = @ + 1,
              !.call = Call("listFiles", Token(1), s.target, <<>>)]
\* Mutant of AfterMint: the client for the hosting API is built with the JWT.
AfterMintMut(s, token) ==
    [s EXCEPT !.pc = "fetch", !.token = token, !.mintOk = @ + 1,
              !.n.listFiles = @ + 1,
              !.call = Call("listFiles", Jwt, s.target, <<>>)]
\* handlePullRequest after the token exchange returned `token`.
AfterMint(s, token) ==
    [s EXCEPT !.pc = "fetch", !.token = token, !.mintOk = @ + 1,
              !.n.listFiles = @ + 1,
              !.call = Call("listFiles", Token(token), s.target, <<>>)]

\* handlePullRequest after listFiles returned `files`.
AfterFetch(s, files) ==
    LET zeros == [i \in 1..Len(files) |-> 0]
    IN  ReviewLoop([s EXCEPT !.files = files, !.fetched = TRUE, !.sent = zeros,
                             !.failed = [i \in 1..Len(files) |-> FALSE],
                             !.returned = zeros, !.tried = zeros, !.posted = zeros], 1)

\* The webhook handler after verifySignature returned TRUE.
AfterVerify(s, body, outcome) ==
    IF body.json # "object" THEN Unhandled(s, outcome)
    ELSE IF Ignored(body.payload) THEN Respond(s, OkStatus)
    ELSE StartPipeline(s, body.payload)

\* The webhook handler from the request to its first await or its response.
Handle(s, q, outcome) ==
    LET v == verifySignature(secret, q.body, q.header)
        t == [s EXCEPT !.sig = v]
    IN  CASE v = "throw" -> Unhandled(t, outcome)
          [] v = "false" -> Respond(t, UnauthorizedStatus)
          [] OTHER -> AfterVerify(t, q.body, outcome)

\* ------------------------------------------------------------------ actions
Set(r, s) == run' = [run EXCEPT ![r] = s]

\* app.post('/webhook', ...) is called with request r.
Webhook(r) ==
    /\ run[r].pc = "recv"
    /\ \E outcome \in UnhandledOutcomes : Set(r, Handle(run[r], req[r], outcome))
    /\ UNCHANGED <<config, issued, head>>

\* apps.createInstallationAccessToken settles.
MintReturns(r) ==
    /\ run[r].pc = "mint"
    /\ \/ /\ issued' = issued + 1
          /\ Set(r, AfterMint(run[r], issued + 1))
       \/ /\ Set(r, Fail(run[r]))
          /\ UNCHANGED issued
    /\ UNCHANGED <<config, head>>

\* pulls.listFiles settles.
FetchReturns(r) ==
    /\ run[r].pc = "fetch"
    /\ \/ \E files \in FileLists(lim.files) :
             /\ \A i \in 1..Len(files) : files[i] \in lim.universe
             /\ Set(r, AfterFetch(run[r], files))
       \/ Set(r, Fail(run[r]))
    /\ UNCHANGED <<config, issued, head>>

\* The completion call of getAIReview settles.
ReviewReturns(r) ==
    /\ run[r].pc = "review"
    /\ \E resp \in ReviewResponses(lim.findings) :
          Set(r, AfterReview([run[r] EXCEPT !.failed[run[r].fi] = resp.kind # "object"],
                             getAIReview(resp)))
    /\ UNCHANGED <<config, issued, head>>

\* pulls.get settles; pushes since the last look may have moved the head.
HeadReturns(r) ==
    /\ run[r].pc = "head"
    /\ \/ \E sha \in head[run[r].target]..MaxHead :
             /\ head' = [head EXCEPT ![run[r].target] = sha]
             /\ Set(r, IssueReviewComment(run[r], sha))
       \/ /\ Set(r, InlineCatch(run[r]))
          /\ UNCHANGED head
    /\ UNCHANGED <<config, issued>>

\* pulls.createReviewComment settles.
InlineReturns(r) ==
    /\ run[r].pc = "inline"
    /\ \/ Set(r, CommentLoop([run[r] EXCEPT !.posted[run[r].fi] = @ + 1], run[r].ci + 1))
       \/ Set(r, InlineCatch(run[r]))
    /\ UNCHANGED <<config, issued, head>>

\* Mutant of SummaryReturns: a failed summary post is logged and swallowed.
SummaryReturnsMut(r) ==
    /\ run[r].pc = "summary"
    /\ \/ Set(r, Respond([run[r] EXCEPT !.summaryOk = @ + 1], OkStatus))
       \/ Set(r, Respond(run[r], OkStatus))
    /\ UNCHANGED <<config, issued, head>>
\* issues.createComment settles.
SummaryReturns(r) ==
    /\ run[r].pc = "summary"
    /\ \/ Set(r, Respond([run[r] EXCEPT !.summaryOk = @ + 1], OkStatus))
       \/ Set(r, Fail(run[r]))
    /\ UNCHANGED <<config, issued, head>>

\* One request r = 1, any body and header, under a secret of S.
Setup(S) ==
    /\ secret \in S
    /\ keyOk \in BOOLEAN
    /\ lim = [files |-> MaxFiles, findings |-> MaxFindings, universe |-> FileUniverse]
    /\ \E q \in Requests(secret) : req = [r \in Reqs |-> q]
    /\ run = [r \in Reqs |-> Idle(IF r = 1 THEN "recv" ELSE "absent")]
    /\ issued = 0
    /\ head = [p \in AllPRs |-> 1]
    /\ calc = NoCalc

\* The handler serving one request, from its arrival to its end.
Init == Setup({CHOOSE s \in Secrets : TRUE})

Next ==
    \E r \in Reqs :
        \/ Webhook(r)
        \/ MintReturns(r)
        \/ FetchReturns(r)
        \/ ReviewReturns(r)
        \/ HeadReturns(r)
        \/ InlineReturns(r)
        \/ SummaryReturns(r)

Spec == Init /\ [][Next]_vars

\* The signature check alone, for every secret: the handler up to its first
\* await or its response.
InitVerify == Setup(Secrets)
NextVerify == \E r \in Reqs : Webhook(r)
SpecVerify == InitVerify /\ [][NextVerify]_vars

\* countLines and formatComment called directly, on every list of at most
\* MaxStatFiles files of StatFiles.
InitSummary ==
    /\ secret = CHOOSE s \in Secrets : TRUE
    /\ keyOk = TRUE
    /\ lim = [files |-> MaxStatFiles, findings |-> 0, universe |-> StatFiles]
    /\ req = [r \in Reqs |-> CHOOSE q \in Requests(secret) : TRUE]
    /\ run = [r \in Reqs |-> Idle("absent")]
    /\ issued = 0
    /\ head = [p \in AllPRs |-> 1]
    /\ \E files \in SeqsUpTo(StatFiles, lim.files) :
          calc = [NoCalc EXCEPT !.pc = "args", !.files = files]

\* countLines(files) returns.
CountLines ==
    /\ calc.pc = "args"
    /\ calc' = [calc EXCEPT !.pc = "counted", !.stats = countLines(calc.files)]
    /\ UNCHANGED <<secret, keyOk, lim, req, run, issued, head>>

\* formatComment(stats) returns.
FormatComment ==
    /\ calc.pc = "counted"
    /\ calc' = [calc EXCEPT !.pc = "formatted", !.comment = formatComment(calc.stats)]
    /\ UNCHANGED <<secret, keyOk, lim, req, run, issued, head>>

NextSummary == CountLines \/ FormatComment
SpecSummary == InitSummary /\ [][NextSummary]_vars

\* The files a diff names when two events are served concurrently.
ConcUniverse == {A_JS, IMG_PNG}

\* Two qualifying, correctly signed events, for two pull requests, served
\* concurrently: the handler's awaits interleave in every order.
Event(r) ==
    [ctype |-> "json", json |-> "object",
     payload |-> [action |-> IF r = 1 THEN "opened" ELSE "synchronize",
                  hasPR |-> TRUE, hasInst |-> TRUE, pr |-> 41 + r]]
InitConc ==
    /\ secret = CHOOSE s \in Secrets : TRUE
    /\ keyOk = TRUE
    /\ lim = [files |-> ConcFiles, findings |-> ConcFindings, universe |-> ConcUniverse]
    /\ req = [r \in Reqs |-> [body |-> Event(r),
                               header |-> [present |-> TRUE, val |-> Sign(secret, Event(r))]]]
    /\ run = [r \in Reqs |-> Idle("recv")]
    /\ issued = 0
    /\ head = [p \in AllPRs |-> 1]
    /\ calc = NoCalc
SpecConc == InitConc /\ [][Next]_vars

\* ------------------------------------------------------------------- claims
Done(r) == run[r].pc = "done"
\* The request carries the signature of its body under the server's secret.
ValidlySigned(r) ==
    req[r].header.present /\ req[r].header.val = Sign(secret, req[r].body)
\* The body reached the handler as raw bytes.
RawBody(r) == req[r].body.ctype = "json"
\* The run issued no external call at all.
NoSideEffect(r) ==
    /\ run[r].n = [mint |-> 0, listFiles |-> 0, review |-> 0, pullsGet |-> 0, summary |-> 0]
    /\ run[r].token = 0 /\ ~run[r].fetched

\* C1: every request whose signature check fails is answered 401 and causes
\* no side effect (no token, no diff fetch, no review call, no comment).
C1_BadSignatureRejected ==
    \A r \in Reqs :
        (Done(r) /\ RawBody(r) /\ ~ValidlySigned(r))
            => (run[r].resp = <<401>> /\ NoSideEffect(r))

\* C2: verifySignature never throws; for an absent header and for a header of
\* any length or format it returns false, and the request is answered 401.
C2_VerifyNeverThrows ==
    \A r \in Reqs :
        (run[r].sig # "none" /\ RawBody(r))
            => /\ run[r].sig # "throw"
               /\ ~ValidlySigned(r) => (run[r].sig = "false" /\ run[r].resp = <<401>>)

\* C3: verifySignature is true exactly for the header 'sha256=' + hex HMAC of
\* the raw body under the secret; for any other header or body it is false.
C3_VerifyExact ==
    \A r \in Reqs :
        (run[r].sig # "none" /\ RawBody(r))
            => run[r].sig = (IF ValidlySigned(r) THEN "true" ELSE "false")

\* The events C4 speaks of: no pull_request object, or an action other than
\* opened and synchronize.
NotForUs(payload) == ~payload.hasPR \/ payload.action \notin {"opened", "synchronize"}

\* C4: a correctly signed event without a pull_request object, or with an
\* action other than opened and synchronize, is answered 200 and nothing else
\* is done: no token, no diff fetch, no review call, no comment.
C4_IgnoredEvent ==
    \A r \in Reqs :
        (Done(r) /\ RawBody(r) /\ ValidlySigned(r) /\ req[r].body.json = "object"
            /\ NotForUs(req[r].body.payload))
            => (run[r].resp = <<200>> /\ NoSideEffect(r) /\ ~run[r].unhandled)
C4_Witness ==
    \E r \in Reqs :
        /\ Done(r) /\ ValidlySigned(r) /\ req[r].body.json = "object"
        /\ req[r].body.payload.hasPR /\ req[r].body.payload.action = "closed"
        /\ run[r].resp = <<200>>

\* C5: every request gets exactly one response, with status 401, 200 or 500,
\* on every path: once the handler has run to its end, it has answered.
C5_OneResponse ==
    \A r \in Reqs :
        Done(r) => (Len(run[r].resp) = 1 /\ run[r].resp[1] \in {401, 200, 500})

HostingApis == {"listFiles", "pulls.get", "createReviewComment", "createComment"}
\* The run got its file list, so it went through the review loop.
Fetched(r) == run[r].fetched
Files(r) == run[r].files
FileIdx(r) == 1..Len(run[r].files)
\* The files C6, C9 and C10 call reviewable: not removed, with a non-empty
\* patch, and no image by their name.
IsImageName(name) == \E ext \in imageExtensions : endsWith(toLowerCase(name), ext)
Reviewable(file) ==
    file.status # "removed" /\ file.patch \notin {Missing, <<"">>} /\ ~IsImageName(file.filename)

\* C6: the summary comment is posted only after the review work of every
\* changed file has finished (each reviewable file was sent once, each file
\* that was skipped was not, and every finding iterated had its inline-comment
\* attempt); once the summary post is issued, no review call, head fetch or
\* inline-comment post is in flight any more.
C6_SummaryLast ==
    \A r \in Reqs :
        run[r].n.summary > 0 =>
            /\ run[r].call.api \in {"createComment", "none"}
            /\ run[r].pc \in {"summary", "done"}
            /\ \A i \in FileIdx(r) :
                  /\ run[r].sent[i] = (IF Reviewable(Files(r)[i]) THEN 1 ELSE 0)
                  /\ run[r].tried[i] = run[r].returned[i]
C6_Witness ==
    \E r \in Reqs :
        /\ run[r].pc = "summary" /\ run[r].call.api = "createComment"
        /\ Len(Files(r)) = 2
        /\ run[r].sent = <<1, 1>>
        /\ run[r].tried = <<2, 1>> /\ run[r].posted = <<1, 1>>

\* C7: the installation-token mint has completed successfully before any
\* hosting-API call of the run is issued, and every such call carries the
\* token minted in that run.
C7_MintFirst ==
    \A r \in Reqs :
        /\ run[r].call.api \in HostingApis =>
              /\ run[r].mintOk = 1
              /\ run[r].token \in 1..issued
              /\ run[r].call.auth = Token(run[r].token)
        /\ (run[r].n.listFiles + run[r].n.pullsGet + run[r].n.summary > 0) =>
              (run[r].mintOk = 1 /\ run[r].token \in 1..issued)
C7_Witness ==
    \E r \in Reqs :
        /\ run[r].call.api = "createReviewComment"
        /\ run[r].call.auth = Token(1) /\ run[r].mintOk = 1

\* The credential step of a qualifying event failed: the key was unusable or
\* the token exchange was rejected.
CredentialFailed(r) ==
    /\ Done(r) /\ RawBody(r) /\ ValidlySigned(r) /\ req[r].body.json = "object"
    /\ ~NotForUs(req[r].body.payload) /\ req[r].body.payload.hasInst
    /\ run[r].mintOk = 0
NoDownstream(r) ==
    /\ run[r].n.listFiles = 0 /\ run[r].n.review = 0 /\ run[r].n.pullsGet = 0
    /\ run[r].n.summary = 0 /\ ~run[r].fetched

\* C8 as stated: a failed credential step is answered 401, before any side
\* effect.
C8_CredentialFailure401 ==
    \A r \in Reqs : CredentialFailed(r) => (run[r].resp = <<401>> /\ NoDownstream(r))
\* C8 amended: a failed credential step is answered 500, and the run aborts
\* before any side effect: no diff fetch, no review call, no comment post.
C8_CredentialFailure500 ==
    \A r \in Reqs : CredentialFailed(r) => (run[r].resp = <<500>> /\ NoDownstream(r))
C8_Witness ==
    \E r \in Reqs :
        /\ CredentialFailed(r) /\ keyOk /\ run[r].n.mint = 1
        /\ run[r].resp = <<500>>

\* What C9 and C10 promise of a run that got its file list: every reviewable
\* file was sent to the review service, the summary post was issued, and the
\* answer is 200 when the summary post itself went through.
RunCompleted(r) ==
    /\ \A i \in FileIdx(r) : Reviewable(Files(r)[i]) => run[r].sent[i] = 1
    /\ run[r].n.summary = 1
    /\ run[r].summaryOk = 1 => run[r].resp = <<200>>

\* C9: when the review service throws or returns malformed output for a file
\* A, every other reviewable file is still sent to the review service, the
\* summary comment is still posted and the request answered 200, and A gets
\* no inline comment (the result counts as an empty finding set).
C9_ReviewFailureIsolated ==
    \A r \in Reqs :
        (Done(r) /\ Fetched(r) /\ \E a \in FileIdx(r) : run[r].failed[a])
            => /\ RunCompleted(r)
               /\ \A a \in FileIdx(r) :
                     run[r].failed[a] =>
                        (run[r].returned[a] = 0 /\ run[r].tried[a] = 0 /\ run[r].posted[a] = 0)
C9_Witness ==
    \E r \in Reqs :
        /\ Done(r) /\ Len(Files(r)) = 2
        /\ run[r].failed = <<TRUE, FALSE>> /\ run[r].sent = <<1, 1>>
        /\ run[r].posted = <<0, 1>>
        /\ run[r].summaryOk = 1 /\ run[r].resp = <<200>>

\* C10: a failure while posting an inline comment (head fetch or post fails,
\* or the finding is malformed) is swallowed: the other findings of the file
\* are still attempted, the other files still reviewed, the summary comment
\* still posted and the request answered 200.
C10_InlineFailureSwallowed ==
    \A r \in Reqs :
        (Done(r) /\ Fetched(r) /\ \E i \in FileIdx(r) : run[r].posted[i] < run[r].tried[i])
            => /\ RunCompleted(r)
               /\ \A i \in FileIdx(r) : run[r].tried[i] = run[r].returned[i]
C10_Witness ==
    \E r \in Reqs :
        /\ Done(r) /\ Len(Files(r)) = 2
        /\ run[r].returned = <<2, 1>> /\ run[r].tried = <<2, 1>>
        /\ run[r].posted = <<0, 1>>
        /\ run[r].summaryOk = 1 /\ run[r].resp = <<200>>

\* A correctly signed opened or synchronize event of a pull request.
Qualifying(r) ==
    /\ RawBody(r) /\ ValidlySigned(r) /\ req[r].body.json = "object"
    /\ ~NotForUs(req[r].body.payload)

\* C11: a failure of the diff fetch or of the summary post is not swallowed:
\* the request is answered 500 and the failed call is not issued again; a
\* qualifying event is answered 200 only when its summary comment was posted;
\* after a failed diff fetch there is no review call, no head fetch and no
\* comment post.
C11_FetchOrSummaryFailure ==
    \A r \in Reqs :
        /\ run[r].n.listFiles <= 1 /\ run[r].n.summary <= 1
        /\ (Done(r) /\ run[r].n.listFiles = 1 /\ ~Fetched(r))
              => /\ run[r].resp = <<500>>
                 /\ run[r].n.review = 0 /\ run[r].n.pullsGet = 0 /\ run[r].n.summary = 0
                 /\ run[r].posted = <<>>
        /\ (Done(r) /\ run[r].n.summary = 1 /\ run[r].summaryOk = 0)
              => run[r].resp = <<500>>
        /\ (Done(r) /\ Qualifying(r) /\ 200 \in {run[r].resp[i] : i \in 1..Len(run[r].resp)})
              => run[r].summaryOk = 1
C11_Witness ==
    \E r \in Reqs :
        /\ Done(r) /\ Qualifying(r) /\ run[r].n.summary = 1 /\ run[r].summaryOk = 0
        /\ run[r].resp = <<500>>
        /\ \E i \in FileIdx(r) : run[r].posted[i] > 0

\* The image suffixes of C12, in small and in capital letters.
SmallSuffixes ==
    { <<".", "p", "n", "g">>, <<".", "j", "p", "g">>, <<".", "j", "p", "e", "g">>,
      <<".", "g", "i", "f">>, <<".", "s", "v", "g">>, <<".", "i", "c", "o">>,
      <<".", "b", "m", "p">>, <<".", "w", "e", "b", "p">> }
CapitalSuffixes ==
    { <<".", "P", "N", "G">>, <<".", "J", "P", "G">>, <<".", "J", "P", "E", "G">>,
      <<".", "G", "I", "F">>, <<".", "S", "V", "G">>, <<".", "I", "C", "O">>,
      <<".", "B", "M", "P">>, <<".", "W", "E", "B", "P">> }
HasSuffix(name, sfx) ==
    Len(name) >= Len(sfx) /\ \A k \in 1..Len(sfx) : name[Len(name) - Len(sfx) + k] = sfx[k]
\* The file is one C12 says is sent to the review service.
ToBeReviewed(file) ==
    /\ file.status # "removed"
    /\ file.patch # Missing /\ file.patch # <<"">>
    /\ ~ \E sfx \in SmallSuffixes \cup CapitalSuffixes : HasSuffix(file.filename, sfx)

\* C12: a changed file is sent to the review service exactly when its status
\* is not 'removed', it has a non-empty patch and its name does not end, in
\* whatever case, in .png .jpg .jpeg .gif .svg .ico .bmp or .webp: no other
\* file is ever sent, and by the time of the summary post every such file has
\* been sent. A name with any of the eight suffixes is no code file; app.py is
\* (isCodeFile has no state, so this part is looked at before the handler runs).
C12_SkipRule ==
    /\ (\A r \in Reqs : run[r].pc \in {"recv", "absent"})
          => /\ \A sfx \in SmallSuffixes \cup CapitalSuffixes : ~isCodeFile(<<"x">> \o sfx)
             /\ isCodeFile(APP_PY.filename) /\ isCodeFile(<<"p", "n", "g">>)
    /\ \A r \in Reqs :
          /\ run[r].call.api = "review"
                => /\ ToBeReviewed(Files(r)[run[r].fi])
                   /\ run[r].call.arg.filename = Files(r)[run[r].fi].filename
          /\ \A i \in FileIdx(r) :
                /\ run[r].sent[i] > 0 => ToBeReviewed(Files(r)[i])
                /\ run[r].pc \in {"summary", "done"}
                      => (run[r].sent[i] > 0 <=> ToBeReviewed(Files(r)[i]))
C12_Witness ==
    \E r \in Reqs :
        /\ Done(r) /\ Files(r) = <<LOGO_PNG, APP_PY>> /\ run[r].sent = <<0, 1>>

RECURSIVE SumOf(_, _)
\* The sum of the counts f[i] over the indices i of I; a missing count is 0.
SumOf(f, I) ==
    IF I = {} THEN 0
    ELSE LET i == CHOOSE k \in I : TRUE
         IN  (IF f[i] = Missing THEN 0 ELSE f[i][1]) + SumOf(f, I \ {i})
\* The statistics C13 and C15 ascribe to a changed-file list.
Statistics(files) ==
    LET kept == {i \in 1..Len(files) : files[i].status # "removed"}
        adds == SumOf([i \in 1..Len(files) |-> files[i].additions], kept)
        dels == SumOf([i \in 1..Len(files) |-> files[i].deletions], kept)
    IN  [additions |-> adds, deletions |-> dels,
         filesChanged |-> Cardinality(kept), netChange |-> adds - dels]

\* C13: countLines returns, for every changed-file list, the sums of the
\* additions and of the deletions over the files that are not removed (a
\* missing count is 0), the number of those files, and additions - deletions
\* as the net change; removed files add nothing and the empty list gives
\* {0, 0, 0, 0}.
C13_CountLines ==
    calc.pc \in {"counted", "formatted"}
        => /\ calc.stats = Statistics(calc.files)
           /\ calc.stats.netChange = calc.stats.additions - calc.stats.deletions
           /\ calc.files = <<>>
                 => calc.stats = [additions |-> 0, deletions |-> 0,
                                  filesChanged |-> 0, netChange |-> 0]
           /\ (\A i \in 1..Len(calc.files) : calc.files[i].status = "removed")
                 => calc.stats.filesChanged = 0 /\ calc.stats.additions = 0
C13_Witness ==
    /\ calc.pc = "counted" /\ Len(calc.files) = 2
    /\ calc.files[1].status = "removed" /\ calc.files[1].additions = <<100>>
    /\ calc.files[2].status = "modified" /\ calc.files[2].additions = Missing
    /\ calc.files[2].deletions = <<1>>
    /\ calc.stats = [additions |-> 0, deletions |-> 1, filesChanged |-> 1, netChange |-> -1]

\* C14: formatComment marks a net change above 100 as large (rocket), a net
\* change below 0 as shrinking (fire) and a net change of 0 to 100 as neutral
\* (chart); it adds the large-PR warning exactly when the net change is above
\* 200 and the good-size line otherwise. So 100 is neutral, 101 large, -1
\* shrinking, 200 has no warning and 201 has it.
C14_FormatTiers ==
    calc.pc = "formatted"
        => LET net == calc.stats.netChange
               c == calc.comment
           IN  /\ net > 100 => c.emoji = "rocket"
               /\ net < 0 => c.emoji = "fire"
               /\ (0 <= net /\ net <= 100) => c.emoji = "chart"
               /\ net > 200 => c.advice = "large"
               /\ net <= 200 => c.advice = "good"
               /\ c.netChange = net
C14_Witness ==
    /\ calc.pc = "formatted" /\ calc.stats.netChange = 200
    /\ calc.comment.emoji = "rocket" /\ calc.comment.advice = "good"

\* Every external call of the run that has settled has succeeded: the token
\* exchange, the diff fetch, every review call (with a comments array), every
\* inline comment of every finding, and the summary post.
AllSucceeded(r) ==
    /\ run[r].mintOk = 1 /\ Fetched(r)
    /\ \A i \in FileIdx(r) : ~run[r].failed[i] /\ run[r].posted[i] = run[r].returned[i]
    /\ Done(r) => run[r].summaryOk = 1

\* C15: for a correctly signed opened or synchronize event whose external
\* calls all succeed, the review service is called exactly once per reviewable
\* file, and exactly one summary comment is posted, with the statistics of the
\* complete fetched list, skipped files that are not removed included; the
\* request is answered 200. For [a.js modified +10/-2 with patch, img.png
\* modified +0/-0 without patch]: one review call, statistics {10, 2, 2, 8},
\* the neutral marker and no warning.
C15_EndToEnd ==
    \A r \in Reqs :
        (run[r].pc \in {"summary", "done"} /\ AllSucceeded(r) /\ Qualifying(r))
            => /\ \A i \in FileIdx(r) :
                     run[r].sent[i] = IF ToBeReviewed(Files(r)[i]) THEN 1 ELSE 0
               /\ run[r].n.review = Cardinality({i \in FileIdx(r) : ToBeReviewed(Files(r)[i])})
               /\ run[r].n.summary = 1
               /\ Done(r) => (run[r].resp = <<200>> /\ ~run[r].unhandled)
               /\ run[r].pc = "summary"
                     => LET body == run[r].call.arg.body
                            stats == Statistics(Files(r))
                        IN  /\ run[r].call.api = "createComment"
                            /\ body.additions = stats.additions
                            /\ body.deletions = stats.deletions
                            /\ body.filesChanged = stats.filesChanged
                            /\ body.netChange = stats.netChange
                            /\ Files(r) = <<A_JS, IMG_PNG>>
                                  => /\ run[r].n.review = 1
                                     /\ body.additions = 10 /\ body.deletions = 2
                                     /\ body.filesChanged = 2 /\ body.netChange = 8
                                     /\ body.emoji = "chart" /\ body.advice = "good"
C15_Witness ==
    \E r \in Reqs :
        /\ Qualifying(r) /\ run[r].pc = "summary" /\ AllSucceeded(r)
        /\ Files(r) = <<A_JS, IMG_PNG>> /\ run[r].posted = <<2, 0>>
        /\ run[r].call.arg.body.filesChanged = 2

\* A severity in capital letters.
Capitals(sev) ==
    CASE sev = "error" -> "ERROR" [] sev = "warning" -> "WARNING"
      [] sev = "suggestion" -> "SUGGESTION" [] OTHER -> "?"
\* The inline comment being posted by run r is anchored as C16 says: the
\* file's name as path, the finding's line as position, and as commit id the
\* head commit its own head fetch has just returned.
Anchored(r) ==
    LET arg == run[r].call.arg
        finding == run[r].comments[run[r].ci]
    IN  /\ arg.path = Files(r)[run[r].fi].filename
        /\ arg.position = finding.line
        /\ arg.commit_id = run[r].sha /\ run[r].sha = head[run[r].target]
\* The body of the inline comment being posted by run r is these pieces.
BodyIs(r, open, close) ==
    LET finding == run[r].comments[run[r].ci]
    IN  run[r].call.arg.body = <<open, Capitals(finding.severity), close, finding.message>>

\* C16 as the claim states it: every inline comment posted is anchored to the
\* file's name, the finding's line and the head commit of that finding's
\* fetch, and its body is `[SEVERITY] message`.
C16_BracketBody ==
    \A r \in Reqs :
        run[r].call.api = "createReviewComment" => (Anchored(r) /\ BodyIs(r, "[", "] "))
\* C16, amended: every inline comment posted is anchored to the file's name as
\* path, the finding's line as diff position and the head commit id returned
\* by that finding's head fetch, and its body is a robot emoji, the severity in
\* capitals set in bold, a colon and the message.
C16_InlineAnchored ==
    \A r \in Reqs :
        run[r].call.api = "createReviewComment" => (Anchored(r) /\ BodyIs(r, "robot **", "**: "))
C16_Witness ==
    \E r \in Reqs :
        /\ run[r].call.api = "createReviewComment" /\ run[r].fi = 2 /\ run[r].ci = 2
        /\ run[r].call.arg.commit_id = 2 /\ run[r].call.arg.position = 3
        /\ run[r].call.arg.path = APP_PY.filename

RECURSIVE Total(_, _)
\* The sum of the counters c[i] over the indices i of I.
Total(c, I) ==
    IF I = {} THEN 0
    ELSE LET i == CHOOSE k \in I : TRUE IN c[i] + Total(c, I \ {i})

\* Run r issues an external call in this step.
Issues(r, api) == run'[r] # run[r] /\ run'[r].call.api = api
\* What a run has issued so far is at most once each.
AtMostOnce(r) ==
    /\ run[r].n.mint <= 1 /\ run[r].n.listFiles <= 1 /\ run[r].n.summary <= 1
    /\ \A i \in FileIdx(r) :
          /\ run[r].sent[i] <= 1
          /\ run[r].tried[i] <= run[r].returned[i]
          /\ run[r].posted[i] <= run[r].tried[i]
    /\ run[r].n.review = Total(run[r].sent, FileIdx(r))
    /\ run[r].n.pullsGet = Total(run[r].tried, FileIdx(r))
\* A call is never issued for a file or a finding that had one before: the
\* review calls go up through the files, the inline-comment attempts of a file
\* go up through its findings, and the post of a finding follows its own head
\* fetch.
NeverAgain(r) ==
    /\ Issues(r, "review") => run'[r].fi > run[r].fi
    /\ Issues(r, "pulls.get")
          => /\ run'[r].fi = run[r].fi
             /\ run'[r].ci = run[r].ci + 1
    /\ Issues(r, "createReviewComment")
          => /\ run[r].pc = "head"
             /\ run'[r].fi = run[r].fi /\ run'[r].ci = run[r].ci
    /\ Issues(r, "listFiles") => run[r].pc = "mint"
    /\ Issues(r, "createComment") => run[r].pc \in {"fetch", "review", "head", "inline"}

\* C17: nothing is retried, whatever fails: in one run each changed file is
\* sent to the review service at most once, each returned finding has at most
\* one inline-comment attempt, the diff is fetched at most once and the summary
\* comment is posted at most once.
C17_AtMostOnce ==
    /\ [](\A r \in Reqs : AtMostOnce(r))
    /\ [][\A r \in Reqs : NeverAgain(r)]_vars
C17_Witness ==
    \E r \in Reqs :
        /\ Done(r) /\ run[r].resp = <<500>> /\ run[r].n.summary = 1
        /\ Len(Files(r)) = 2 /\ run[r].sent = <<1, 1>> /\ run[r].failed[1]
        /\ run[r].tried[2] = 2 /\ run[r].posted[2] = 0

\* While run r works on a finding, it is finding number ci of the array the
\* review service returned for file fi, the attempts made for that file are
\* those of findings 1..ci, and no later file has been sent for review; while
\* a review call is in flight, every finding of every earlier file has had
\* its attempt.
InReturnedOrder(r) ==
    /\ run[r].pc \in {"head", "inline"}
          => /\ 1 <= run[r].ci /\ run[r].ci <= Len(run[r].comments)
             /\ run[r].returned[run[r].fi] = Len(run[r].comments)
             /\ run[r].tried[run[r].fi] = run[r].ci
             /\ \A j \in FileIdx(r) : j > run[r].fi => run[r].sent[j] = 0
    /\ run[r].pc = "inline"
          => run[r].call.arg.position = run[r].comments[run[r].ci].line
    /\ run[r].pc = "review"
          => \A j \in FileIdx(r) :
                /\ j < run[r].fi => run[r].tried[j] = run[r].returned[j]
                /\ j > run[r].fi => run[r].sent[j] = 0
\* An attempt starts in the step in which the attempt before it settles (the
\* first one when the review call returns), and the next file's review call
\* starts in the step in which the last attempt of the file before settles.
OneAtATime(r) ==
    /\ Issues(r, "pulls.get")
          => IF run'[r].ci = 1 THEN run[r].pc = "review"
             ELSE /\ run[r].pc \in {"head", "inline"}
                  /\ run[r].ci = run'[r].ci - 1
    /\ Issues(r, "review")
          => /\ run[r].pc \in {"fetch", "review", "head", "inline"}
             /\ run[r].pc \in {"head", "inline"} => run[r].ci = Len(run[r].comments)

\* C18: the inline-comment attempts for the findings of one file are made one
\* at a time, in the order the review service returned the findings (attempt
\* i has completed or failed before attempt i+1 starts), and all attempts for
\* one file come before the review call of the next file.
C18_InOrder ==
    /\ [](\A r \in Reqs : InReturnedOrder(r))
    /\ [][\A r \in Reqs : OneAtATime(r)]_vars
C18_Witness ==
    \E r \in Reqs :
        /\ run[r].pc = "inline" /\ run[r].fi = 1 /\ run[r].ci = 2
        /\ run[r].comments[1].line = 7 /\ run[r].comments[2].line = 3
        /\ Len(Files(r)) = 2 /\ ToBeReviewed(Files(r)[2])

\* The pull request the event of request r is about.
PullOf(r) == req[r].body.payload.pr
\* Run r has a call in flight at the hosting service's API.
AtHosting(r) == run[r].call.api \in HostingApis
\* What run r has in flight is made of run r's own token, pull request, file
\* list and findings.
OwnData(r) ==
    /\ AtHosting(r)
          => /\ run[r].token # 0 /\ run[r].call.auth = Token(run[r].token)
             /\ run[r].call.target = PullOf(r)
    /\ run[r].call.api = "createInstallationAccessToken" => run[r].call.target = PullOf(r)
    /\ run[r].call.api = "review"
          => run[r].call.arg = [filename |-> Files(r)[run[r].fi].filename,
                                patch |-> Files(r)[run[r].fi].patch]
    /\ run[r].call.api = "createReviewComment"
          => /\ run[r].call.arg.path = Files(r)[run[r].fi].filename
             /\ run[r].call.arg.position = run[r].comments[run[r].ci].line
             /\ run[r].call.arg.commit_id = head[PullOf(r)]
    /\ run[r].call.api = "createComment"
          => run[r].call.arg.body.filesChanged = Statistics(Files(r)).filesChanged

\* C19: qualifying events served concurrently share no mutable state. Each run
\* asks for its token exactly once; no two runs hold the same token; every
\* call a run makes at the hosting API carries that run's token and that run's
\* pull request, and is made of that run's own file list and findings, in
\* every interleaving.
C19_RunsIsolated ==
    \A r \in Reqs :
        /\ run[r].pc = "recv" => Qualifying(r)
        /\ run[r].pc # "recv" => run[r].n.mint = 1
        /\ run[r].mintOk <= 1 /\ (run[r].token # 0 <=> run[r].mintOk = 1)
        /\ run[r].token <= issued
        /\ \A q \in Reqs \ {r} : run[r].token # 0 => run[r].token # run[q].token
        /\ OwnData(r)
C19_Witness ==
    /\ run[1].pc = "inline" /\ run[2].pc = "summary"
    /\ run[1].token = 2 /\ run[2].token = 1
    /\ run[1].call.target = 42 /\ run[2].call.target = 43
    /\ Files(1) # Files(2)

\* C20: the head commit is fetched once per finding, right before that
\* finding's inline comment is posted, not once per file or per run: when the
\* review loop is over, the run has made as many head fetches as it had
\* findings to post; the commit id of a comment is the head at its own fetch;
\* and if the head has moved since the previous comment of the same file was
\* posted, the two comments carry different commit ids.
C20_HeadPerFinding ==
    \A r \in Reqs :
        /\ run[r].n.pullsGet <= Total(run[r].returned, FileIdx(r))
        /\ (Fetched(r) /\ run[r].pc \in {"summary", "done"})
              => run[r].n.pullsGet = Total(run[r].returned, FileIdx(r))
        /\ run[r].pc \in {"head", "inline"}
              => run[r].n.pullsGet
                    = Total(run[r].returned, 1..(run[r].fi - 1)) + run[r].ci
        /\ run[r].pc = "inline"
              => /\ run[r].call.arg.commit_id = head[run[r].target]
                 /\ (run[r].last # 0 /\ head[run[r].target] # run[r].last)
                       => run[r].call.arg.commit_id # run[r].last
C20_Witness ==
    \E r \in Reqs :
        /\ run[r].pc = "inline" /\ run[r].ci = 2 /\ run[r].n.pullsGet = 2
        /\ run[r].last = 1 /\ run[r].call.arg.commit_id = 2

====
